---- MODULE Spec2Model ----
(***************************************************************************)
(* Budget tracker: the Category tree, the Budget with its two derived      *)
(* indexes (src/app/parser/budget_loader.py), the BudgetAnalyzer           *)
(* (src/app/analysis/budget_analyzer.py) and the budget editor of the web  *)
(* application (src/app/editor, src/app/web).                              *)
(*                                                                         *)
(* Conventions of the model                                                *)
(*  - Python's None is the empty tuple <<>>; an Optional value v that is   *)
(*    present is the one-element tuple <<v>>.                              *)
(*  - Money is counted in integer cents.  Python computes with binary      *)
(*    floats; the model computes with exact integers and exact rationals   *)
(*    (variance_percent is a reduced fraction <<numerator, denominator>>). *)
(*  - A reference to a Category object is the path of that object in its   *)
(*    budget: <<forest, i, j, ...>> is child j of root i of the forest.    *)
(*  - document, load_data, pc and steps are the state of one run of        *)
(*    BudgetLoader.load_budget or of the Budget constructor; session is    *)
(*    st.session_state of the web application.  A specification that does  *)
(*    not run them keeps them idle.                                        *)
(***************************************************************************)
EXTENDS Integers, Sequences, FiniteSets, TLC

VARIABLES budget, actual_data, start_month, end_month,
          overspend_threshold, only_overspend, last_call,
          document, load_data, pc, steps, session

vars == <<budget, actual_data, start_month, end_month,
          overspend_threshold, only_overspend, last_call,
          document, load_data, pc, steps, session>>

None == <<>>

(***************************************************************************)
(* Bounds of the model.                                                    *)
(***************************************************************************)
\* number of period (month) columns of the actual-spending table
NumPeriods == 3
\* largest number of rows of an actual-spending table
MaxRows == 2

(***************************************************************************)
(* Small arithmetic helpers.                                               *)
(***************************************************************************)
RECURSIVE SumSeq(_)
SumSeq(s) ==
    IF s = <<>> THEN 0 ELSE Head(s) + SumSeq(Tail(s))

Abs(x) ==
    IF x < 0 THEN -x ELSE x

RECURSIVE GCD(_, _)
GCD(a, b) ==
    IF b = 0 THEN a ELSE GCD(b, a % b)

\* the exact quotient n / d (d # 0) as a reduced fraction with a positive
\* denominator
Frac(n, d) ==
    LET g == GCD(Abs(n), Abs(d))
        s == IF d < 0 THEN -1 ELSE 1
    IN  <<(s * n) \div g, (s * d) \div g>>

\* q <= t for a fraction q and an integer t
FracLeq(q, t) ==
    q[1] <= t * q[2]

\* seq[a:b] of Python for 0 <= a, 0 <= b
PySlice(seq, a, b) ==
    LET hi == IF b < Len(seq) THEN b ELSE Len(seq)
        n  == IF hi > a THEN hi - a ELSE 0
    IN  [i \in 1..n |-> seq[a + i]]

(***************************************************************************)
(* Category (budget_loader.py, class Category).                            *)
(*   [category |-> name, amount |-> None or <<cents>>,                     *)
(*    subcategories |-> sequence of Category]                              *)
(* subcategories = None and subcategories = [] behave alike in every test  *)
(* the code makes ("if cat.subcategories:"), so both are the empty         *)
(* sequence.                                                               *)
(***************************************************************************)
RECURSIVE get_total_amount_children_added(_)
get_total_amount_children_added(self) ==
    LET subs == [i \in 1..Len(self.subcategories) |->
                    get_total_amount_children_added(self.subcategories[i])]
    IN  IF self.amount # None THEN self.amount[1] + SumSeq(subs)
        ELSE IF self.subcategories # <<>> THEN SumSeq(subs)
        ELSE 0

RECURSIVE get_total_amount(_)
get_total_amount(self) ==
    IF self.amount # None THEN self.amount[1]
    ELSE IF self.subcategories # <<>>
         THEN SumSeq([i \in 1..Len(self.subcategories) |->
                         get_total_amount(self.subcategories[i])])
         ELSE 0

(***************************************************************************)
(* Budget (budget_loader.py, class Budget).                                *)
(*   [income, expenses |-> sequence of Category,                           *)
(*    _category_name_map, _budget_category_map |-> name -> path]             *)
(***************************************************************************)
\* dict[key] = value
DictPut(d, key, value) ==
    [k \in (DOMAIN d) \cup {key} |-> IF k = key THEN value ELSE d[k]]

EmptyDict == [k \in {} |-> None]

\* the Category object a path refers to, within the forests of b
RECURSIVE Descend(_, _)
Descend(cat, rest) ==
    IF rest = <<>> THEN cat
    ELSE Descend(cat.subcategories[Head(rest)], Tail(rest))

NodeAt(b, path) ==
    Descend(b[path[1]][path[2]], SubSeq(path, 3, Len(path)))

\* populate_map(categories, current_budget_cat), from element i on; maps is
\* the pair of dictionaries it writes, prefix the path of the list's owner
RECURSIVE populate_map(_, _, _, _, _)
populate_map(maps, categories, i, prefix, current_budget_cat) ==
    IF i > Len(categories) THEN maps
    ELSE
      LET cat  == categories[i]
          path == Append(prefix, i)
          next_budget_cat ==
              IF cat.amount # None THEN <<path>> ELSE current_budget_cat
          m1 == [_category_name_map |->
                     DictPut(maps._category_name_map, cat.category, path),
                 _budget_category_map |->
                     IF next_budget_cat # None
                     THEN DictPut(maps._budget_category_map, cat.category,
                                  next_budget_cat[1])
                     ELSE maps._budget_category_map]
          m2 == IF cat.subcategories # <<>>
                THEN populate_map(m1, cat.subcategories, 1, path, next_budget_cat)
                ELSE m1
      IN  populate_map(m2, categories, i + 1, prefix, current_budget_cat)

\* Budget(income=..., expenses=...): the forests and the two indexes as
\* model_post_init builds them
model_post_init(income, expenses) ==
    LET m0 == [_category_name_map |-> EmptyDict, _budget_category_map |-> EmptyDict]
        m1 == populate_map(m0, income, 1, <<"income">>, None)
        m2 == populate_map(m1, expenses, 1, <<"expenses">>, None)
    IN  [income |-> income, expenses |-> expenses,
         _category_name_map |-> m2._category_name_map,
         _budget_category_map |-> m2._budget_category_map]

\* the paths _iter_categories_with_amount(categories) yields, in order
RECURSIVE _iter_categories_with_amount(_, _)
_iter_categories_with_amount(categories, prefix) ==
    IF categories = <<>> THEN <<>>
    ELSE
      LET n == Len(categories)
          RECURSIVE From(_)
          From(i) ==
              IF i > n THEN <<>>
              ELSE LET cat  == categories[i]
                       path == Append(prefix, i)
                   IN  (IF cat.amount # None THEN <<path>> ELSE <<>>)
                       \o (IF cat.subcategories # <<>>
                           THEN _iter_categories_with_amount(cat.subcategories, path)
                           ELSE <<>>)
                       \o From(i + 1)
      IN  From(1)

get_budget_category_wrong_index(b, cat) ==
    IF cat \in DOMAIN b._category_name_map
    THEN <<b._category_name_map[cat]>> ELSE None

get_budget_category(b, cat) ==
    IF cat \in DOMAIN b._budget_category_map
    THEN <<b._budget_category_map[cat]>> ELSE None

get_income_categories(b) ==
    _iter_categories_with_amount(b.income, <<"income">>)

get_expense_categories_skip_nested(b) ==
    LET all == _iter_categories_with_amount(b.expenses, <<"expenses">>)
    IN  SelectSeq(all, LAMBDA p : Len(p) = 2)

get_expense_categories(b) ==
    _iter_categories_with_amount(b.expenses, <<"expenses">>)

get_total_income(b) ==
    LET cats == get_income_categories(b)
    IN  SumSeq([i \in 1..Len(cats) |-> get_total_amount(NodeAt(b, cats[i]))])

get_total_expenses(b) ==
    LET cats == get_expense_categories(b)
    IN  SumSeq([i \in 1..Len(cats) |-> get_total_amount(NodeAt(b, cats[i]))])

get_net_budget(b) ==
    get_total_income(b) - get_total_expenses(b)

(***************************************************************************)
(* The budgets the model loads.  A budget document is a shape (a node's    *)
(* shape is the sequence of its children's shapes), and a name and an      *)
(* amount for every node, numbered in document order.                      *)
(***************************************************************************)
Leaf == <<>>

\* the number of nodes of a tree; of a forest, one more than its nodes
RECURSIVE ShapeSize(_)
ShapeSize(shape) ==
    IF shape = <<>> THEN 1
    ELSE ShapeSize(Head(shape)) + ShapeSize(Tail(shape))

\* the Category list of the forest `shapes`, whose first node is node `pos`
RECURSIVE BuildForest(_, _, _, _)
BuildForest(shapes, pos, names, amounts) ==
    IF shapes = <<>> THEN <<>>
    ELSE <<[category      |-> names[pos],
            amount        |-> amounts[pos],
            subcategories |-> BuildForest(Head(shapes), pos + 1, names, amounts)]>>
         \o BuildForest(Tail(shapes), pos + ShapeSize(Head(shapes)), names, amounts)

\* Budget(**data) on a valid document
LoadBudget(shape, names, amounts) ==
    model_post_init(
        BuildForest(shape.income, 1, names, amounts),
        BuildForest(shape.expenses, ShapeSize(shape.income), names, amounts))

CategoryNames == <<"Salary", "Housing", "Rent", "Insurance", "Groceries">>

\* the same document with the fourth node named like the second
DuplicatedNames == <<"Salary", "Housing", "Rent", "Housing", "Groceries">>

\* a name no budget of the model holds
UnknownName == "Misc"

AmountValues == {0, 40000, 150000}

OptionalAmounts == {None} \cup {<<a>> : a \in AmountValues}

\* Salary | Housing > Rent > Insurance, Groceries
ChainShape ==
    [income |-> <<Leaf>>, expenses |-> << << <<Leaf>> >>, Leaf >>]

\* Salary > Housing | Rent > (Insurance, Groceries)
WideShape ==
    [income |-> << <<Leaf>> >>, expenses |-> << <<Leaf, Leaf>> >>]

\* Salary | Housing > (Rent, Insurance), Groceries: the layout of
\* data/sample_budget.yaml that the tests load
SampleShape ==
    [income |-> <<Leaf>>, expenses |-> << <<Leaf, Leaf>>, Leaf >>]

TreeBudgets ==
    { LoadBudget(shape, names, amounts) :
        shape \in {ChainShape, WideShape},
        names \in {CategoryNames, DuplicatedNames},
        amounts \in [1..5 -> OptionalAmounts] }

\* the paths of all nodes of a forest
RECURSIVE ForestPaths(_, _)
ForestPaths(categories, prefix) ==
    UNION { {Append(prefix, i)}
            \cup ForestPaths(categories[i].subcategories, Append(prefix, i)) :
            i \in 1..Len(categories) }

AllPaths(b) ==
    ForestPaths(b.income, <<"income">>) \cup ForestPaths(b.expenses, <<"expenses">>)

(***************************************************************************)
(* BudgetAnalyzer.__init__ (budget_analyzer.py 15-22).                     *)
(***************************************************************************)
DefaultThreshold == 10

NoCall == [op |-> "none", arg |-> None, outcome |-> "none", result |-> None]

Returned(op, arg, value) ==
    [op |-> op, arg |-> arg, outcome |-> "ok", result |-> value]

Raised(op, arg, error) ==
    [op |-> op, arg |-> arg, outcome |-> error, result |-> None]

AnalyzerInit(b) ==
    /\ budget = b
    /\ actual_data = None
    /\ start_month = None
    /\ end_month = None
    /\ overspend_threshold = DefaultThreshold
    /\ only_overspend = FALSE
    /\ last_call = NoCall

analyzer_vars == <<actual_data, start_month, end_month,
                   overspend_threshold, only_overspend>>

loader_vars == <<document, load_data, pc, steps>>

\* no load is running
LoaderIdle ==
    document = None /\ load_data = None /\ pc = "idle" /\ steps = <<>>

\* no web session
NoSession ==
    session = None

(***************************************************************************)
(* SpecBudget: the read operations of Budget and Category on every budget  *)
(* of TreeBudgets.                                                         *)
(***************************************************************************)
InitBudget ==
    /\ \E b \in TreeBudgets : AnalyzerInit(b)
    /\ LoaderIdle
    /\ NoSession

CallGetBudgetCategory ==
    \E cat \in {CategoryNames[i] : i \in 1..Len(CategoryNames)} \cup {UnknownName} :
        /\ last_call' = Returned("get_budget_category", cat,
                                 get_budget_category(budget, cat))
        /\ UNCHANGED <<loader_vars, session, budget, analyzer_vars>>

CallGetTotalAmount ==
    \E path \in AllPaths(budget) :
        /\ last_call' = Returned("get_total_amount", path,
                                 get_total_amount(NodeAt(budget, path)))
        /\ UNCHANGED <<loader_vars, session, budget, analyzer_vars>>

CallGetExpenseCategories ==
    /\ last_call' = Returned("get_expense_categories", None,
                             get_expense_categories(budget))
    /\ UNCHANGED <<loader_vars, session, budget, analyzer_vars>>

CallGetIncomeCategories ==
    /\ last_call' = Returned("get_income_categories", None,
                             get_income_categories(budget))
    /\ UNCHANGED <<loader_vars, session, budget, analyzer_vars>>

CallGetTotalExpenses ==
    /\ last_call' = Returned("get_total_expenses", None,
                             get_total_expenses(budget))
    /\ UNCHANGED <<loader_vars, session, budget, analyzer_vars>>

CallGetTotalIncome ==
    /\ last_call' = Returned("get_total_income", None,
                             get_total_income(budget))
    /\ UNCHANGED <<loader_vars, session, budget, analyzer_vars>>

NextBudget ==
    \/ CallGetTotalExpenses
    \/ CallGetTotalIncome
    \/ CallGetBudgetCategory
    \/ CallGetTotalAmount
    \/ CallGetExpenseCategories
    \/ CallGetIncomeCategories

SpecBudget == InitBudget /\ [][NextBudget]_vars

(***************************************************************************)
(* The actual-spending table (a pandas DataFrame indexed by category       *)
(* name).  Its columns are the period columns followed by HierarchyLevel,  *)
(* as SimplifiParser.load_file appends it; a row is                        *)
(* [name |-> index label, values |-> one value per column].                *)
(***************************************************************************)
MonthLabels ==
    <<"January", "February", "March", "April", "May", "June", "July",
      "August", "September", "October", "November", "December">>

Columns ==
    SubSeq(MonthLabels, 1, NumPeriods) \o <<"HierarchyLevel">>

\* a row worth base in the first period and step more in each later one
Row(name, base, step, level) ==
    [name   |-> name,
     values |-> [c \in 1..(NumPeriods + 1) |->
                    IF c <= NumPeriods THEN base + step * (c - 1) ELSE level]]

RowPool ==
    <<Row("Salary", 600000, 0, 0),
      Row("Rent", -100000, 0, 1),
      Row("Insurance", -60000, -1000, 1),
      Row("Groceries", -54973, -10000, 0),
      Row(UnknownName, -777, -1, 0)>>

RECURSIVE SortedSeq(_)
SortedSeq(S) ==
    IF S = {} THEN <<>>
    ELSE LET m == CHOOSE x \in S : \A y \in S : x <= y
         IN  <<m>> \o SortedSeq(S \ {m})

ActualTables ==
    { [columns |-> Columns,
       rows    |-> [i \in 1..Cardinality(S) |-> RowPool[SortedSeq(S)[i]]]] :
        S \in {T \in SUBSET (1..Len(RowPool)) : Cardinality(T) <= MaxRows} }

\* the (label, position) pairs the range selectors offer: every column but
\* HierarchyLevel, with its 0-based position among the columns
month_options ==
    { <<Columns[c], c - 1>> : c \in {d \in 1..Len(Columns) : Columns[d] # "HierarchyLevel"} }

\* the values the threshold selector offers that the model uses
ThresholdOptions == {5, 10}

(***************************************************************************)
(* BudgetAnalyzer (budget_analyzer.py).  self is the record of the         *)
(* analyzer's fields.                                                      *)
(***************************************************************************)
Self ==
    [budget |-> budget, actual_data |-> actual_data,
     start_month |-> start_month, end_month |-> end_month,
     overspend_threshold |-> overspend_threshold,
     only_overspend |-> only_overspend]

\* end_month[1] - start_month[1] + 1 (the tuples are 1-based here)
num_of_months(self) ==
    self.end_month[2] - self.start_month[2] + 1

Budget_Category_own_name_when_unmatched(self, x) ==
    IF get_budget_category(self.budget, x) # None
    THEN <<NodeAt(self.budget, get_budget_category(self.budget, x)[1]).category>>
    ELSE <<x>>

\* the name of the budget category a row name resolves to, or None
Budget_Category(self, x) ==
    IF get_budget_category(self.budget, x) # None
    THEN <<NodeAt(self.budget, get_budget_category(self.budget, x)[1]).category>>
    ELSE None

\* the Series summarize_totals_by_budget_category returns, as a function
\* from the group labels to the group sums
summarize_totals_by_budget_category(self) ==
    LET data    == self.actual_data[1]
        lo      == self.start_month[2]
        hi      == self.end_month[2] + 1
        \* actual_data[columns_to_include]: the labels are unique, so the
        \* selection by label is the selection by position
        subset  == [r \in 1..Len(data.rows) |-> PySlice(data.rows[r].values, lo, hi)]
        \* actual_data_subset.iloc[:, 1:].sum(axis=1)
        Total   == [r \in 1..Len(data.rows) |->
                       SumSeq(PySlice(subset[r], 1, Len(subset[r])))]
        cat     == [r \in 1..Len(data.rows) |-> Budget_Category(self, data.rows[r].name)]
        kept    == {r \in 1..Len(data.rows) : cat[r] # None}
        labels  == {cat[r][1] : r \in kept}
    IN  [g \in labels |->
            SumSeq([i \in 1..Cardinality({r \in kept : cat[r][1] = g}) |->
                       Total[SortedSeq({r \in kept : cat[r][1] = g})[i]]])]

\* series.reindex(names, fill_value=0.0) followed by a lookup by label
reindex(series, names) ==
    [n \in {names[i] : i \in 1..Len(names)} |->
        IF n \in DOMAIN series THEN series[n] ELSE 0]

CategoryNamesOf(b, paths) ==
    [i \in 1..Len(paths) |-> NodeAt(b, paths[i]).category]

variance_pct_zero_budget_full(variance, budget_amount) ==
    IF budget_amount # 0 THEN Frac(-100 * variance, budget_amount) ELSE <<100, 1>>

\* (variance / budget_amount) * -100 if budget_amount != 0 else 0.0
variance_pct(variance, budget_amount) ==
    IF budget_amount # 0 THEN Frac(-100 * variance, budget_amount) ELSE <<0, 1>>

\* the body of the loop of calculate_variances for one expense category
variance_data(self, expense, actual_spending) ==
    LET actual        == actual_spending[expense.category]
        budget_amount == expense.amount[1] * num_of_months(self)
        variance      == budget_amount + actual
    IN  [category         |-> expense.category,
         budgeted         |-> budget_amount,
         actual           |-> -actual,
         variance         |-> -variance,
         variance_percent |-> variance_pct(variance, budget_amount)]

overspend_skipped_whatever_the_filter(self, record) ==
    FracLeq(record.variance_percent, self.overspend_threshold)

\* if self.only_overspend and variance_pct <= self.overspend_threshold: continue
overspend_skipped(self, record) ==
    self.only_overspend /\ FracLeq(record.variance_percent, self.overspend_threshold)

\* the rows of the DataFrame calculate_variances returns (data and range set)
calculate_variances(self) ==
    LET expenses        == get_expense_categories(self.budget)
        all_budget_expense_cats == CategoryNamesOf(self.budget, expenses)
        actual_spending == reindex(summarize_totals_by_budget_category(self),
                                   all_budget_expense_cats)
        RECURSIVE Loop(_)
        Loop(i) ==
            IF i > Len(expenses) THEN <<>>
            ELSE LET record == variance_data(self, NodeAt(self.budget, expenses[i]),
                                             actual_spending)
                 IN  (IF overspend_skipped(self, record) THEN <<>> ELSE <<record>>)
                     \o Loop(i + 1)
    IN  Loop(1)

calculate_variances_outcome_defaulting_without_data(self) ==
    IF self.actual_data = None
    THEN [outcome |-> "ok", result |-> <<>>]
    ELSE IF self.start_month = None \/ self.end_month = None
    THEN [outcome |-> "TypeError", result |-> None]
    ELSE [outcome |-> "ok", result |-> calculate_variances(self)]

\* how a call of calculate_variances ends: ValueError without actual data
\* (lines 48-49), TypeError when end_month or start_month is None (line 55),
\* otherwise the records
calculate_variances_outcome(self) ==
    IF self.actual_data = None
    THEN [outcome |-> "ValueError", result |-> None]
    ELSE IF self.start_month = None \/ self.end_month = None
    THEN [outcome |-> "TypeError", result |-> None]
    ELSE [outcome |-> "ok", result |-> calculate_variances(self)]

identify_overspending_below_threshold(variances, threshold_percent) ==
    IF variances = <<>> THEN <<>>
    ELSE LET overspending == SelectSeq(variances,
                                 LAMBDA r : FracLeq(r.variance_percent, threshold_percent))
         IN  [i \in 1..Len(overspending) |-> overspending[i].category]

\* identify_overspending after its call of calculate_variances returned:
\* [] for an empty frame, else the categories with
\* variance_percent > threshold_percent
identify_overspending(variances, threshold_percent) ==
    IF variances = <<>> THEN <<>>
    ELSE LET overspending == SelectSeq(variances,
                                 LAMBDA r : ~FracLeq(r.variance_percent, threshold_percent))
         IN  [i \in 1..Len(overspending) |-> overspending[i].category]

\* get_savings_opportunities after its call of calculate_variances returned
\* a frame with rows
get_savings_opportunities(variances) ==
    LET under_budget == SelectSeq(variances, LAMBDA r : r.variance < 0)
    IN  [i \in 1..Len(under_budget) |->
            [category          |-> under_budget[i].category,
             potential_savings |-> Abs(under_budget[i].variance),
             current_spending  |-> under_budget[i].actual]]


SumOver(series, names) ==
    SumSeq([i \in 1..Len(names) |-> series[names[i]]])

generate_summary_stats_no_data_net_added(self) ==
    [total_budgeted_income   |-> get_total_income(self.budget),
     total_budgeted_expenses |-> get_total_expenses(self.budget),
     budgeted_net            |-> get_total_income(self.budget) + get_total_expenses(self.budget),
     total_actual_income     |-> 0,
     total_actual_expenses   |-> 0,
     actual_net              |-> 0]

\* generate_summary_stats when actual_data is None
generate_summary_stats_no_data(self) ==
    [total_budgeted_income   |-> get_total_income(self.budget),
     total_budgeted_expenses |-> get_total_expenses(self.budget),
     budgeted_net            |-> get_net_budget(self.budget),
     total_actual_income     |-> 0,
     total_actual_expenses   |-> 0,
     actual_net              |-> 0]

\* generate_summary_stats when actual_data and the range are set
generate_summary_stats(self) ==
    LET income_categories  == CategoryNamesOf(self.budget, get_income_categories(self.budget))
        expense_categories == CategoryNamesOf(self.budget, get_expense_categories(self.budget))
        by_category == reindex(summarize_totals_by_budget_category(self),
                               income_categories \o expense_categories)
        actual_income   == SumOver(by_category, income_categories)
        actual_expenses == SumOver(by_category, expense_categories)
    IN  [total_budgeted_income   |-> get_total_income(self.budget) * num_of_months(self),
         total_budgeted_expenses |-> get_total_expenses(self.budget) * num_of_months(self),
         budgeted_net            |-> get_net_budget(self.budget) * num_of_months(self),
         total_actual_income     |-> actual_income,
         total_actual_expenses   |-> actual_expenses,
         actual_net              |-> actual_income + actual_expenses]

(***************************************************************************)
(* Spec: one BudgetAnalyzer over a budget with the layout of the sample    *)
(* budget, its setters and its aggregate operations.  last_call is the     *)
(* outcome of the latest call: what it returned or the error it raised.    *)
(***************************************************************************)
AnalyzerBudgets ==
    { LoadBudget(SampleShape, CategoryNames, <<salary, housing, rent, None, <<40000>> >>) :
        salary  \in {<<600000>>},
        housing \in {None, <<0>>, <<150000>>},
        rent    \in {None, <<100000>>} }
    \cup { LoadBudget(SampleShape, CategoryNames,
                      <<None, <<150000>>, None, None, <<40000>> >>) }

Init ==
    /\ \E b \in AnalyzerBudgets : AnalyzerInit(b)
    /\ LoaderIdle
    /\ NoSession

\* set_actual_data; the CategoryMatcher it builds is read by no aggregate
SetActualData ==
    \E data \in ActualTables :
        /\ actual_data' = <<data>>
        /\ last_call' = NoCall
        /\ UNCHANGED <<loader_vars, session, budget, start_month, end_month, overspend_threshold,
                       only_overspend>>

SetAnalysisDateRange ==
    \E start \in month_options, end \in month_options :
        IF actual_data = None
        THEN /\ last_call' = Raised("set_analysis_date_range", None, "ValueError")
             /\ UNCHANGED <<loader_vars, session, budget, analyzer_vars>>
        ELSE /\ start_month' = start
             /\ end_month' = end
             /\ last_call' = NoCall
             /\ UNCHANGED <<loader_vars, session, budget, actual_data, overspend_threshold, only_overspend>>

SetOverspendThreshold ==
    \E threshold \in ThresholdOptions :
        /\ overspend_threshold' = threshold
        /\ last_call' = NoCall
        /\ UNCHANGED <<loader_vars, session, budget, actual_data, start_month, end_month, only_overspend>>

SetOnlyOverspend ==
    \E flag \in BOOLEAN :
        /\ only_overspend' = flag
        /\ last_call' = NoCall
        /\ UNCHANGED <<loader_vars, session, budget, actual_data, start_month, end_month,
                       overspend_threshold>>

CalculateVariances_consuming_the_filter ==
    /\ LET v == calculate_variances_outcome(Self)
       IN  last_call' =
              IF v.outcome # "ok"
              THEN Raised("calculate_variances", None, v.outcome)
              ELSE Returned("calculate_variances", None, v.result)
    /\ only_overspend' = FALSE
    /\ UNCHANGED <<loader_vars, session, budget, actual_data, start_month,
                   end_month, overspend_threshold>>

CalculateVariances ==
    /\ LET v == calculate_variances_outcome(Self)
       IN  last_call' =
              IF v.outcome # "ok"
              THEN Raised("calculate_variances", None, v.outcome)
              ELSE Returned("calculate_variances", None, v.result)
    /\ UNCHANGED <<loader_vars, session, budget, analyzer_vars>>

\* identify_overspending(threshold_percent): the error of calculate_variances
\* propagates
IdentifyOverspending ==
    \E threshold_percent \in ThresholdOptions :
        /\ LET v == calculate_variances_outcome(Self)
           IN  last_call' =
                  IF v.outcome # "ok"
                  THEN Raised("identify_overspending", <<threshold_percent>>, v.outcome)
                  ELSE Returned("identify_overspending", <<threshold_percent>>,
                                identify_overspending(v.result, threshold_percent))
        /\ UNCHANGED <<loader_vars, session, budget, analyzer_vars>>

\* get_savings_opportunities(): the error of calculate_variances propagates;
\* a frame without rows has no column 'variance' to select on (KeyError)
GetSavingsOpportunities ==
    /\ LET v == calculate_variances_outcome(Self)
       IN  last_call' =
              IF v.outcome # "ok"
              THEN Raised("get_savings_opportunities", None, v.outcome)
              ELSE IF v.result = <<>>
              THEN Raised("get_savings_opportunities", None, "KeyError")
              ELSE Returned("get_savings_opportunities", None,
                            get_savings_opportunities(v.result))
    /\ UNCHANGED <<loader_vars, session, budget, analyzer_vars>>

SummarizeTotalsByBudgetCategory ==
    /\ last_call' =
          IF actual_data = None
          THEN Raised("summarize_totals_by_budget_category", None, "AttributeError")
          ELSE IF start_month = None \/ end_month = None
          THEN Raised("summarize_totals_by_budget_category", None, "TypeError")
          ELSE Returned("summarize_totals_by_budget_category", None,
                        summarize_totals_by_budget_category(Self))
    /\ UNCHANGED <<loader_vars, session, budget, analyzer_vars>>

GenerateSummaryStats ==
    /\ last_call' =
          IF actual_data = None
          THEN Returned("generate_summary_stats", None,
                        generate_summary_stats_no_data(Self))
          ELSE IF start_month = None \/ end_month = None
          THEN Raised("generate_summary_stats", None, "TypeError")
          ELSE Returned("generate_summary_stats", None, generate_summary_stats(Self))
    /\ UNCHANGED <<loader_vars, session, budget, analyzer_vars>>

Next ==
    \/ SetActualData
    \/ SetAnalysisDateRange
    \/ SetOverspendThreshold
    \/ SetOnlyOverspend
    \/ CalculateVariances
    \/ IdentifyOverspending
    \/ GetSavingsOpportunities
    \/ SummarizeTotalsByBudgetCategory
    \/ GenerateSummaryStats

Spec == Init /\ [][Next]_vars

(***************************************************************************)
(* Loading a budget document (budget_loader.py).  A document is the value  *)
(* yaml.safe_load returns: the two lists of category dicts.  The amount    *)
(* of a dict is a number, a string or None; a string is the tuple of its   *)
(* characters.                                                             *)
(***************************************************************************)
AmountNone ==
    [type |-> "NoneType", number |-> 0, text |-> <<>>]

AmountNumber(n) ==
    [type |-> "number", number |-> n, text |-> <<>>]

AmountStr(t) ==
    [type |-> "str", number |-> 0, text |-> t]

LowerCase ==
    <<"a", "b", "c", "d", "e", "f", "g", "h", "i", "j", "k", "l", "m",
      "n", "o", "p", "q", "r", "s", "t", "u", "v", "w", "x", "y", "z">>

UpperCase ==
    <<"A", "B", "C", "D", "E", "F", "G", "H", "I", "J", "K", "L", "M",
      "N", "O", "P", "Q", "R", "S", "T", "U", "V", "W", "X", "Y", "Z">>

\* str.upper()
upper(t) ==
    [k \in 1..Len(t) |->
        IF \E i \in 1..Len(LowerCase) : LowerCase[i] = t[k]
        THEN UpperCase[CHOOSE i \in 1..Len(LowerCase) : LowerCase[i] = t[k]]
        ELSE t[k]]

INHERITED ==
    <<"I", "N", "H", "E", "R", "I", "T", "E", "D">>

\* isinstance(amount, str) and amount.upper() == 'INHERITED'
is_inherited(amount) ==
    amount.type = "str" /\ upper(amount.text) = INHERITED

process_category_top_level_only(cat_data) ==
    [cat_data EXCEPT !.amount = IF is_inherited(@) THEN AmountNone ELSE @]

\* process_category of preprocess_inherited: a copy of the dict with the
\* amount normalized and the subcategories processed
RECURSIVE process_category(_)
process_category(cat_data) ==
    [category      |-> cat_data.category,
     amount        |-> IF is_inherited(cat_data.amount) THEN AmountNone
                       ELSE cat_data.amount,
     subcategories |-> [i \in 1..Len(cat_data.subcategories) |->
                           process_category(cat_data.subcategories[i])]]

\* Budget.preprocess_inherited: a copy of the document with both lists
\* processed
preprocess_inherited(d) ==
    [income   |-> [i \in 1..Len(d.income) |-> process_category(d.income[i])],
     expenses |-> [i \in 1..Len(d.expenses) |-> process_category(d.expenses[i])]]

\* the dicts of a list of category dicts, at every depth
RECURSIVE AllDicts(_)
AllDicts(categories) ==
    UNION { {categories[i]} \cup AllDicts(categories[i].subcategories) :
            i \in 1..Len(categories) }

\* what the budget schema accepts: every amount is a number or the
\* literal INHERITED in any letter case
SchemaAccepts(d) ==
    \A cat \in AllDicts(d.income) \cup AllDicts(d.expenses) :
        cat.amount.type = "number" \/ is_inherited(cat.amount)

\* the validation of the field amount: Optional[float] takes None and
\* numbers; none of the strings of the model parses as a float
amount_is_valid(amount) ==
    amount.type \in {"NoneType", "number"}

\* the Category objects built from a list of validated dicts
RECURSIVE Categories(_)
Categories(categories) ==
    [i \in 1..Len(categories) |->
        [category      |-> categories[i].category,
         amount        |-> IF categories[i].amount.type = "number"
                           THEN <<categories[i].amount.number>> ELSE None,
         subcategories |-> Categories(categories[i].subcategories)]]

(***************************************************************************)
(* SpecLoad: one run of BudgetLoader.load_budget on a document, or of the  *)
(* Budget constructor on it, step by step, followed by lookups in the      *)
(* budget it built.  steps is the list of the steps taken so far.          *)
(***************************************************************************)
Inherited_mixed_case ==
    <<"I", "n", "h", "e", "r", "i", "t", "e", "d">>

NotAnAmount ==
    <<"n", "/", "a">>

DocumentAmounts ==
    {AmountNone, AmountNumber(40000), AmountNumber(150000),
     AmountStr(INHERITED), AmountStr(Inherited_mixed_case), AmountStr(NotAnAmount)}

Documents ==
    { [income   |-> BuildForest(shape.income, 1, CategoryNames, amounts),
       expenses |-> BuildForest(shape.expenses, ShapeSize(shape.income),
                                CategoryNames, amounts)] :
        shape \in {SampleShape, ChainShape},
        amounts \in [1..5 -> DocumentAmounts] }

InitLoad ==
    /\ document \in Documents
    /\ \/ pc = "load_budget" /\ load_data = None
       \/ pc = "Budget" /\ load_data = document
    /\ steps = <<>>
    /\ budget = None
    /\ actual_data = None
    /\ start_month = None
    /\ end_month = None
    /\ overspend_threshold = DefaultThreshold
    /\ only_overspend = FALSE
    /\ last_call = NoCall
    /\ NoSession

\* data = yaml.safe_load(file)
SafeLoad ==
    /\ pc = "load_budget"
    /\ load_data' = document
    /\ steps' = Append(steps, "yaml.safe_load")
    /\ pc' = "jsonschema.validate"
    /\ UNCHANGED <<document, budget, analyzer_vars, last_call, session>>

JsonschemaValidate_result_ignored ==
    /\ pc = "jsonschema.validate"
    /\ steps' = Append(steps, "jsonschema.validate")
    /\ pc' = "Budget"
    /\ UNCHANGED <<document, load_data, budget, analyzer_vars, last_call, session>>

\* jsonschema.validate(data, schema); return Budget(**data)
JsonschemaValidate ==
    /\ pc = "jsonschema.validate"
    /\ steps' = Append(steps, "jsonschema.validate")
    /\ IF SchemaAccepts(load_data)
       THEN pc' = "Budget" /\ UNCHANGED last_call
       ELSE /\ pc' = "done"
            /\ last_call' = Raised("load_budget", None, "jsonschema.ValidationError")
    /\ UNCHANGED <<document, load_data, budget, analyzer_vars, session>>

\* the mode='before' validator of Budget
PreprocessInherited ==
    /\ pc = "Budget"
    /\ load_data' = preprocess_inherited(load_data)
    /\ steps' = Append(steps, "preprocess_inherited")
    /\ pc' = "fields"
    /\ UNCHANGED <<document, budget, analyzer_vars, last_call, session>>

\* the validation of the fields, which builds the Category objects, and
\* model_post_init on the Budget it yields
ValidateFields ==
    /\ pc = "fields"
    /\ pc' = "done"
    /\ IF \A cat \in AllDicts(load_data.income) \cup AllDicts(load_data.expenses) :
              amount_is_valid(cat.amount)
       THEN /\ budget' = model_post_init(Categories(load_data.income),
                                         Categories(load_data.expenses))
            /\ steps' = steps \o <<"Category", "model_post_init">>
            /\ last_call' = Returned("Budget", None, None)
       ELSE /\ steps' = Append(steps, "Category")
            /\ last_call' = Raised("Budget", None, "pydantic.ValidationError")
            /\ UNCHANGED budget
    /\ UNCHANGED <<document, load_data, analyzer_vars, session>>

get_expense_category_any_node(b, cat_name) ==
    IF cat_name \in DOMAIN b._category_name_map
       /\ b._category_name_map[cat_name][1] = "expenses"
    THEN <<b._category_name_map[cat_name]>>
    ELSE None

\* Budget.get_expense_category: the first expense category with an amount
\* that bears the name, or None
get_expense_category(b, cat_name) ==
    LET cats  == get_expense_categories(b)
        found == {i \in 1..Len(cats) : NodeAt(b, cats[i]).category = cat_name}
    IN  IF found = {} THEN None
        ELSE <<cats[CHOOSE i \in found : \A j \in found : i <= j]>>

CallGetExpenseCategory ==
    \E cat_name \in {CategoryNames[i] : i \in 1..Len(CategoryNames)} \cup {UnknownName} :
        /\ pc = "done"
        /\ budget # None
        /\ last_call' = Returned("get_expense_category", cat_name,
                                 get_expense_category(budget, cat_name))
        /\ UNCHANGED <<loader_vars, budget, analyzer_vars, session>>

NextLoad ==
    \/ SafeLoad
    \/ JsonschemaValidate
    \/ PreprocessInherited
    \/ ValidateFields
    \/ CallGetExpenseCategory

SpecLoad == InitLoad /\ [][NextLoad]_vars

(***************************************************************************)
(* The web session: st.session_state, the main page                        *)
(* (src/app/web/streamlit_app.py) and the budget editor page               *)
(* (src/app/web/pages/edit_budget.py, src/app/editor/budget_editor.py).    *)
(*                                                                         *)
(*  - session is a record of the keys of st.session_state.  A key the      *)
(*    pages give a default on their first run (lines 38-69 of the main     *)
(*    page, 49-52 and 72-78 of the editor page) holds that default from    *)
(*    the start; working_budget and the two widget keys are None while     *)
(*    they are absent.                                                     *)
(*  - A Budget object of the session is [model, own_indexes]: model is the *)
(*    Budget as before, own_indexes tells whether the Category objects in  *)
(*    its two indexes are the objects of its own forests.  model_copy      *)
(*    with deep=True copies the fields and the private attributes in two   *)
(*    separate deepcopy calls, so the indexes of the copy hold copies of   *)
(*    the nodes that are not the nodes of the copy's forests, until        *)
(*    model_post_init rebuilds them.                                       *)
(*  - The value of a data_editor key is the edited table, a sequence of    *)
(*    rows [category, inherited, amount] indexed by category, as           *)
(*    apply_changes_to_working_copy reads it.                              *)
(*  - One action is one run of a page's script on one user interaction,    *)
(*    together with the immediate run that st.rerun() starts.              *)
(***************************************************************************)
\* largest budget_version of a session
MaxBudgetVersion == 2

\* Salary | Housing > Rent
EditorShape ==
    [income |-> <<Leaf>>, expenses |-> << <<Leaf>> >>]

\* the amounts of Salary, Housing and Rent in the uploaded budget files;
\* a file that is missing here fails to load
BudgetFiles ==
    [a |-> <<<<150000>>, <<150000>>, None>>,
     b |-> <<<<150000>>, None, <<40000>>>>]

InvalidFile == "invalid"

UploadedFiles == DOMAIN BudgetFiles \cup {InvalidFile}

\* a Budget object whose indexes hold its own nodes
OwnIndexes(b) ==
    [model |-> b, own_indexes |-> TRUE]

\* _load_budget_file: the Budget of the file, or None when loading raised
_load_budget_file(uploaded_file) ==
    IF uploaded_file \in DOMAIN BudgetFiles
    THEN OwnIndexes(LoadBudget(EditorShape, CategoryNames, BudgetFiles[uploaded_file]))
    ELSE None

\* Budget.model_copy(deep=True)
model_copy(b) ==
    [model |-> b.model, own_indexes |-> FALSE]

\* Budget.model_post_init(None) on a Budget object of the session
post_init(b) ==
    OwnIndexes(model_post_init(b.model.income, b.model.expenses))

\* flatten_categories(categories) with category as the index, the columns
\* render_editor_table shows: walk(nodes, level)
RECURSIVE walk(_, _)
walk(nodes, level) ==
    IF nodes = <<>> THEN <<>>
    ELSE
      LET node      == Head(nodes)
          is_top    == level = 0
          inherited == node.amount = None /\ ~is_top
      IN  <<[category  |-> node.category,
             inherited |-> inherited,
             amount    |-> IF inherited THEN None ELSE node.amount]>>
          \o walk(node.subcategories, level + 1)
          \o walk(Tail(nodes), level)

flatten_categories(categories) ==
    walk(categories, 0)

\* categories with the amount of the node at index path `rest` replaced
RECURSIVE SetAmountIn(_, _, _)
SetAmountIn(categories, rest, amount) ==
    [categories EXCEPT ![Head(rest)] =
        IF Len(rest) = 1
        THEN [@ EXCEPT !.amount = amount]
        ELSE [@ EXCEPT !.subcategories = SetAmountIn(@, Tail(rest), amount)]]

\* current_category.amount = amount, for the node of b at path
SetAmount(b, path, amount) ==
    [b EXCEPT ![path[1]] = SetAmountIn(@, Tail(path), amount)]

\* apply_changes_to_working_copy(edit_table_df, working_budget), from row i
\* on.  The node of a row is found through _category_name_map: it is a node
\* of the forests only when the indexes hold the budget's own nodes,
\* otherwise the assignment reaches a copy of the node and the forests keep
\* their amount.  Every table of the model is over the names of the budget.
RECURSIVE apply_rows(_, _, _, _)
apply_rows(edit_table_df, i, working_budget, changes_made) ==
    IF i > Len(edit_table_df)
    THEN [working_budget |-> IF changes_made THEN post_init(working_budget)
                             ELSE working_budget,
          changes_made   |-> changes_made]
    ELSE
      LET row        == edit_table_df[i]
          path       == working_budget.model._category_name_map[row.category]
          current    == NodeAt(working_budget.model, path).amount
          new_amount == IF row.inherited THEN None ELSE row.amount
          changed    == current # new_amount
      IN  apply_rows(edit_table_df, i + 1,
                     IF changed /\ working_budget.own_indexes
                     THEN [working_budget EXCEPT
                               !.model = SetAmount(@, path, new_amount)]
                     ELSE working_budget,
                     changes_made \/ changed)

apply_changes_to_working_copy(edit_table_df, working_budget) ==
    apply_rows(edit_table_df, 1, working_budget, FALSE)

\* _clear_editor_state()
_clear_editor_state(s) ==
    [s EXCEPT !.unsaved_changes = FALSE,
              !.income_categories_edit_table = None,
              !.expense_categories_edit_table = None]

\* the element of a set of one element
Only(S) ==
    CHOOSE r \in S : TRUE

apply_key_on_shared_nodes(s, key) ==
    IF s[key] = None THEN s
    ELSE
      LET r == apply_changes_to_working_copy(s[key], s.working_budget)
      IN  [s EXCEPT !.working_budget = r.working_budget,
                    !.budget = r.working_budget,
                    !.unsaved_changes = r.changes_made \/ s.unsaved_changes]

\* one pass of the loop of _apply_edit_changes_update_flag, for one key
apply_key(s, key) ==
    IF s[key] = None THEN s
    ELSE
      LET r == apply_changes_to_working_copy(s[key], s.working_budget)
      IN  [s EXCEPT !.working_budget = r.working_budget,
                    !.unsaved_changes = r.changes_made \/ s.unsaved_changes]

\* _apply_edit_changes_update_flag()
_apply_edit_changes_update_flag(s) ==
    apply_key(apply_key(s, "income_categories_edit_table"),
              "expense_categories_edit_table")

\* apply_edit_changes_update_flag() of edit_budget_helpers.py: the `or` has
\* the flag first, so apply_changes_to_working_copy is not called for a key
\* once unsaved_changes is True
apply_edit_changes_update_flag(s) ==
    LET helper_key(t, key) ==
            IF t[key] = None \/ t.unsaved_changes THEN t
            ELSE
              LET r == apply_changes_to_working_copy(t[key], t.working_budget)
              IN  [t EXCEPT !.working_budget = r.working_budget,
                            !.unsaved_changes = r.changes_made]
    IN  Only({helper_key(t, "expense_categories_edit_table") :
                  t \in {helper_key(s, "income_categories_edit_table")}})

\* _setup_working_budget_copy()
_setup_working_budget_copy(s) ==
    [s EXCEPT !.working_budget = model_copy(s.budget),
              !.working_budget_version = s.budget_version]

\* the two render_editor_table calls: a key that is absent gets the table
\* of the working copy, a key that is present keeps the edited table
render_editor_tables(s) ==
    [s EXCEPT !.income_categories_edit_table =
                  IF @ = None
                  THEN flatten_categories(s.working_budget.model.income) ELSE @,
              !.expense_categories_edit_table =
                  IF @ = None
                  THEN flatten_categories(s.working_budget.model.expenses) ELSE @]

Ended(s, how) ==
    [session |-> s, ended |-> how]

SaveChanges_without_copy(s) ==
    _clear_editor_state(
        [s EXCEPT !.budget_version = @ + 1,
                  !.working_budget_version = s.budget_version + 1,
                  !.analyzer = None])

\* the Save Changes handler
SaveChanges(s) ==
    _clear_editor_state(
        [s EXCEPT !.budget = post_init(model_copy(s.working_budget)),
                  !.budget_version = @ + 1,
                  !.working_budget_version = s.budget_version + 1,
                  !.analyzer = None])

\* _confirm_leave_modal(), button "Leave without saving"
LeaveWithoutSaving(s) ==
    [_clear_editor_state(s) EXCEPT !.show_leave_modal = FALSE]

DiscardChanges_flags_only(s) ==
    [_clear_editor_state(s) EXCEPT !.show_discard_modal = FALSE]

\* _confirm_discard_modal(), button "Discard changes"
DiscardChanges(s) ==
    [_clear_editor_state(_setup_working_budget_copy(s))
        EXCEPT !.show_discard_modal = FALSE]

\* the end of the script: the two tables, then the pending edits again
render_and_apply(s) ==
    Only({Ended(_apply_edit_changes_update_flag(t), "end") :
              t \in {render_editor_tables(s)}})

\* the script from the toolbar to its end, on the button `pressed`
toolbar(s, pressed) ==
    CASE pressed = "Save Changes" ->
            Only({render_and_apply(t) : t \in {SaveChanges(s)}})
      [] pressed = "Cancel Changes" ->
            IF s.unsaved_changes
            THEN Ended([s EXCEPT !.show_discard_modal = TRUE], "rerun")
            ELSE Only({render_and_apply(t) :
                          t \in {_clear_editor_state(_setup_working_budget_copy(s))}})
      [] pressed = "Back to main page" ->
            IF s.unsaved_changes
            THEN Ended([s EXCEPT !.show_leave_modal = TRUE], "rerun")
            ELSE Ended(s, "switch_page")
      [] OTHER -> render_and_apply(s)

\* the script from the dialogs on
dialogs_and_toolbar(s, pressed) ==
    CASE s.show_leave_modal /\ pressed = "Leave without saving" ->
            Ended(LeaveWithoutSaving(s), "switch_page")
      [] s.show_leave_modal /\ pressed = "Stay on page" ->
            Ended([s EXCEPT !.show_leave_modal = FALSE], "rerun")
      [] s.show_discard_modal /\ pressed = "Discard changes" ->
            Ended(DiscardChanges(s), "rerun")
      [] s.show_discard_modal /\ pressed = "Keep editing" ->
            Ended([s EXCEPT !.show_discard_modal = FALSE], "rerun")
      [] OTHER ->
            Only({toolbar(t, pressed) :
                      t \in {_apply_edit_changes_update_flag(s)}})

initialize_working_copy_when_missing(s) ==
    IF s.working_budget = None
    THEN _clear_editor_state(_setup_working_budget_copy(s))
    ELSE s

\* the working copy is initialized or refreshed when it is missing or out
\* of date
initialize_working_copy(s) ==
    IF s.working_budget = None \/ s.working_budget_version # s.budget_version
    THEN _clear_editor_state(_setup_working_budget_copy(s))
    ELSE s

\* one run of the script of the editor page on the button `pressed`
edit_budget(s, pressed) ==
    IF s.budget = None THEN Ended(s, "stop")
    ELSE Only({dialogs_and_toolbar(t, pressed) :
                   t \in {initialize_working_copy(s)}})

\* the main page's script after the uploads: the analyzer is built on every
\* run that has a budget and a spending table
streamlit_app(s) ==
    [s EXCEPT !.page = "main",
              !.analyzer = IF s.budget # None /\ s.actual_data # None
                           THEN <<"BudgetAnalyzer">> ELSE @]

\* the run st.rerun() starts, and the main page's run after switch_page
following_run(first) ==
    CASE first.ended = "rerun" ->
            Ended(edit_budget(first.session, "none").session, "rerun")
      [] first.ended = "switch_page" ->
            Ended(streamlit_app(first.session), "switch_page")
      [] OTHER -> first

\* a run of the editor page and the run that follows it at once
PageRun(s, pressed) ==
    Only({following_run(first) :
              first \in {edit_budget([s EXCEPT !.page = "editor"], pressed)}})

\* the session after the first runs of the main page, a spending export
\* uploaded and no budget yet
InitialSession ==
    [page                          |-> "main",
     budget                        |-> None,
     actual_data                   |-> <<"DataFrame">>,
     analyzer                      |-> None,
     budget_version                |-> 0,
     budget_file_digest            |-> None,
     working_budget                |-> None,
     working_budget_version        |-> -1,
     unsaved_changes               |-> FALSE,
     show_leave_modal              |-> FALSE,
     show_discard_modal            |-> FALSE,
     income_categories_edit_table  |-> None,
     expense_categories_edit_table |-> None]

InitEditor ==
    /\ session = InitialSession
    /\ budget = None
    /\ actual_data = None
    /\ start_month = None
    /\ end_month = None
    /\ overspend_threshold = DefaultThreshold
    /\ only_overspend = FALSE
    /\ last_call = NoCall
    /\ LoaderIdle

\* what the model remembers of an interaction: the widget the user acted
\* on, its argument and how the script's run ended
Interaction(widget, arg, ended) ==
    [op |-> widget, arg |-> arg, outcome |-> ended, result |-> None]

editor_frame == <<loader_vars, budget, analyzer_vars>>

\* load_budget_file on the main page: a budget file is in the uploader
UploadBudget ==
    \E uploaded_file \in UploadedFiles, reload \in BOOLEAN :
        /\ session.page = "main"
        /\ session.budget_version < MaxBudgetVersion
        /\ session.budget = None
           \/ session.budget_file_digest # <<uploaded_file>>
           \/ reload
        /\ LET loaded == _load_budget_file(uploaded_file)
               s1 == [session EXCEPT !.budget = loaded]
               s2 == IF loaded # None
                     THEN [s1 EXCEPT !.budget_file_digest = <<uploaded_file>>,
                                     !.budget_version = @ + 1,
                                     !.analyzer = None]
                     ELSE s1
           IN  /\ session' = streamlit_app(s2)
               /\ last_call' = Interaction("Upload Budget YAML", uploaded_file,
                                           IF loaded # None THEN "loaded" ELSE "error")
        /\ UNCHANGED editor_frame

\* the sidebar navigation of app_nav.py; the interaction that opens the
\* editor records the version of the working copy the page found
OpenPage ==
    /\ ~session.show_leave_modal /\ ~session.show_discard_modal
    /\ \/ /\ session.page = "main"
          /\ \E r \in {PageRun(session, "none")} :
                /\ session' = r.session
                /\ last_call' =
                       [Interaction("Edit Budget", None, r.ended)
                            EXCEPT !.result = <<session.working_budget_version>>]
       \/ /\ session.page = "editor"
          /\ session' = streamlit_app(session)
          /\ last_call' = Interaction("Home", None, "end")
    /\ UNCHANGED editor_frame

\* the values the user types into an amount cell
CellAmounts == {None, <<40000>>}

\* the user changes one cell of one of the two tables
EditTable ==
    /\ session.page = "editor"
    /\ session.budget # None
    /\ ~session.show_leave_modal /\ ~session.show_discard_modal
    /\ \E key \in {"income_categories_edit_table", "expense_categories_edit_table"} :
         \E i \in 1..Len(session[key]) :
           \E cell \in {[inherited |-> v] : v \in BOOLEAN}
                         \cup {[amount |-> a] : a \in CellAmounts} :
             LET row    == session[key][i]
                 edited == IF "inherited" \in DOMAIN cell
                           THEN [row EXCEPT !.inherited = cell.inherited]
                           ELSE [row EXCEPT !.amount = cell.amount]
             IN  /\ edited # row
                 /\ \E r \in {PageRun([session EXCEPT ![key][i] = edited], "none")} :
                       /\ session' = r.session
                       /\ last_call' = Interaction(key, None, r.ended)
    /\ UNCHANGED editor_frame

\* a button of the toolbar
PressToolbar(pressed) ==
    /\ session.page = "editor"
    /\ session.budget # None
    /\ ~session.show_leave_modal /\ ~session.show_discard_modal
    /\ pressed = "Save Changes" => session.budget_version < MaxBudgetVersion
    /\ \E r \in {PageRun(session, pressed)} :
          /\ session' = r.session
          /\ last_call' = Interaction(pressed, None, r.ended)
    /\ UNCHANGED editor_frame

Save == PressToolbar("Save Changes")

Cancel == PressToolbar("Cancel Changes")

Back == PressToolbar("Back to main page")

\* a button of the dialog that is open
PressDialog(pressed) ==
    /\ session.page = "editor"
    /\ session.budget # None
    /\ IF pressed \in {"Leave without saving", "Stay on page"}
       THEN session.show_leave_modal ELSE session.show_discard_modal
    /\ \E r \in {PageRun(session, pressed)} :
          /\ session' = r.session
          /\ last_call' = Interaction(pressed, None, r.ended)
    /\ UNCHANGED editor_frame

Leave == PressDialog("Leave without saving")

Stay == PressDialog("Stay on page")

Discard == PressDialog("Discard changes")

KeepEditing == PressDialog("Keep editing")

NextEditor ==
    \/ UploadBudget
    \/ OpenPage
    \/ EditTable
    \/ Save
    \/ Cancel
    \/ Back
    \/ Leave
    \/ Stay
    \/ Discard
    \/ KeepEditing

SpecEditor == InitEditor /\ [][NextEditor]_vars

(***************************************************************************)
(* Vocabulary of the properties: ancestry and document order on paths.     *)
(***************************************************************************)
IsPrefix(q, p) ==
    /\ Len(q) <= Len(p)
    /\ SubSeq(p, 1, Len(q)) = q

\* p comes before q in depth-first pre-order
RECURSIVE PreOrderBefore(_, _)
PreOrderBefore(p, q) ==
    IF p = <<>> THEN q # <<>>
    ELSE IF q = <<>> THEN FALSE
    ELSE IF Head(p) = Head(q) THEN PreOrderBefore(Tail(p), Tail(q))
    ELSE Head(p) < Head(q)

UniqueNames(b) ==
    \A p, q \in AllPaths(b) :
        NodeAt(b, p).category = NodeAt(b, q).category => p = q

HasAmount(b, p) ==
    NodeAt(b, p).amount # None

\* the amount-bearing nodes on the way from the root down to p, p included
AmountBearingOnPath(b, p) ==
    {q \in AllPaths(b) : IsPrefix(q, p) /\ HasAmount(b, q)}

\* the amount-bearing nodes at or below p with no amount-bearing node
\* strictly between p and them
AmountFrontier(b, p) ==
    {q \in AllPaths(b) :
        /\ IsPrefix(p, q)
        /\ HasAmount(b, q)
        /\ \A r \in AllPaths(b) :
              (IsPrefix(p, r) /\ IsPrefix(r, q) /\ r # q) => ~HasAmount(b, r)}

RECURSIVE SumAmounts(_, _)
SumAmounts(b, paths) ==
    IF paths = {} THEN 0
    ELSE LET p == CHOOSE x \in paths : TRUE
         IN  NodeAt(b, p).amount[1] + SumAmounts(b, paths \ {p})

(***************************************************************************)
(* C4.  With globally unique names, get_budget_category(name) is the named *)
(* node when it has a defined amount, else its nearest proper ancestor     *)
(* with a defined amount, and None when the name is unknown or no node on  *)
(* the way to the root has a defined amount.                               *)
(***************************************************************************)
C4_NearestAmountBearing ==
    (last_call.op = "get_budget_category" /\ UniqueNames(budget)) =>
        LET named == {p \in AllPaths(budget) :
                         NodeAt(budget, p).category = last_call.arg}
        IN  IF named = {} THEN last_call.result = None
            ELSE LET p     == CHOOSE x \in named : TRUE
                     cands == AmountBearingOnPath(budget, p)
                 IN  /\ HasAmount(budget, p) => last_call.result = <<p>>
                     /\ cands = {} => last_call.result = None
                     /\ cands # {} =>
                          \E q \in cands :
                              /\ \A r \in cands : Len(r) <= Len(q)
                              /\ last_call.result = <<q>>

\* an inherited grandchild resolved to its amount-bearing parent although
\* the root above carries an amount too
C4_Witness ==
    /\ last_call.op = "get_budget_category"
    /\ UniqueNames(budget)
    /\ last_call.result # None
    /\ Len(last_call.result[1]) = 3
    /\ \E p \in AllPaths(budget) :
          /\ Len(p) = 4
          /\ NodeAt(budget, p).category = last_call.arg
          /\ IsPrefix(last_call.result[1], p)
          /\ HasAmount(budget, SubSeq(p, 1, 2))

(***************************************************************************)
(* C5.  get_total_amount() of a node is its amount when that is defined,   *)
(* whatever the children hold; for an inherited node it is the sum of the  *)
(* children's totals, which is the sum of the nearest defined amounts      *)
(* below it; for an inherited node without children it is 0.               *)
(***************************************************************************)
C5_TotalAmount ==
    last_call.op = "get_total_amount" =>
        LET p    == last_call.arg
            node == NodeAt(budget, p)
            kids == node.subcategories
        IN  /\ node.amount # None => last_call.result = node.amount[1]
            /\ node.amount = None =>
                 /\ last_call.result =
                        SumSeq([i \in 1..Len(kids) |-> get_total_amount(kids[i])])
                 /\ last_call.result = SumAmounts(budget, AmountFrontier(budget, p))
            /\ (node.amount = None /\ kids = <<>>) => last_call.result = 0

\* an inherited node over an inherited child, with a positive total
C5_Witness ==
    /\ last_call.op = "get_total_amount"
    /\ NodeAt(budget, last_call.arg).amount = None
    /\ last_call.result > 0
    /\ \E i \in 1..Len(NodeAt(budget, last_call.arg).subcategories) :
          /\ NodeAt(budget, last_call.arg).subcategories[i].amount = None
          /\ NodeAt(budget, last_call.arg).subcategories[i].subcategories # <<>>

(***************************************************************************)
(* C6.  get_expense_categories() and get_income_categories() return        *)
(* exactly the nodes of their forest that carry a defined amount, each     *)
(* once, in depth-first pre-order.                                         *)
(***************************************************************************)
C6_CategoriesWithAmount ==
    last_call.op \in {"get_expense_categories", "get_income_categories"} =>
        LET forest == IF last_call.op = "get_expense_categories"
                      THEN "expenses" ELSE "income"
            res    == last_call.result
        IN  /\ {res[i] : i \in 1..Len(res)} =
                  {p \in ForestPaths(budget[forest], <<forest>>) :
                      HasAmount(budget, p)}
            /\ \A i, j \in 1..Len(res) :
                  i < j => PreOrderBefore(res[i], res[j])

\* an inherited root is left out while its amount-bearing grandchild is
\* returned, after an amount-bearing sibling subtree
C6_Witness ==
    /\ last_call.op = "get_expense_categories"
    /\ Len(last_call.result) >= 2
    /\ \E i \in 1..Len(last_call.result) :
          /\ Len(last_call.result[i]) >= 3
          /\ ~HasAmount(budget, SubSeq(last_call.result[i], 1, 2))
    /\ \E p \in AllPaths(budget) : p[1] = "expenses" /\ ~HasAmount(budget, p)

(***************************************************************************)
(* Vocabulary of the analyzer's properties.                                *)
(***************************************************************************)
RangeSet ==
    actual_data # None /\ start_month # None /\ end_month # None

\* period_count = end_index - start_index + 1
PeriodCount ==
    end_month[2] - start_month[2] + 1

CallReturned(op) ==
    last_call.op = op /\ last_call.outcome = "ok"

\* the budget categories of a forest: its nodes with a defined amount
BudgetCategoryPaths(forest) ==
    {p \in ForestPaths(budget[forest], <<forest>>) : HasAmount(budget, p)}

\* the sum of a row's values over all the columns at positions
\* start_index..end_index, the first one included
RowRangeSum(row) ==
    SumSeq([i \in 1..(end_month[2] - start_month[2] + 1) |->
               row.values[start_month[2] + i]])

\* the rows of the table whose name resolves to the budget category b
RowsOf(b) ==
    {r \in 1..Len(actual_data[1].rows) :
        Budget_Category(Self, actual_data[1].rows[r].name) = <<b>>}

RECURSIVE SumRowRange(_)
SumRowRange(rs) ==
    IF rs = {} THEN 0
    ELSE LET r == CHOOSE x \in rs : TRUE
         IN  RowRangeSum(actual_data[1].rows[r]) + SumRowRange(rs \ {r})

\* the sum, over the budget categories at the given paths, of the rows
\* resolving to each of them
RECURSIVE SumOfRows(_)
SumOfRows(paths) ==
    IF paths = {} THEN 0
    ELSE LET p == CHOOSE x \in paths : TRUE
         IN  SumRowRange(RowsOf(NodeAt(budget, p).category)) + SumOfRows(paths \ {p})

Records(seq) ==
    {seq[i] : i \in 1..Len(seq)}

(***************************************************************************)
(* C1.  Every record calculate_variances() returns for an expense budget   *)
(* category c has budgeted = c.amount * period_count, actual = minus the   *)
(* reconciled total of c (the sum of the rows resolving to c over the      *)
(* selected range, 0 without matching rows), variance = actual - budgeted  *)
(* and, for budgeted # 0, variance_percent = 100 * variance / budgeted;    *)
(* without the overspend filter every expense budget category has its      *)
(* record; and budgeted over 3 periods is 3 times budgeted over 1 period.  *)
(***************************************************************************)
C1_VarianceRecord ==
    (CallReturned("calculate_variances") /\ PeriodCount >= 1) =>
        LET one_period == calculate_variances(
                              [Self EXCEPT !.end_month = Self.start_month,
                                           !.only_overspend = FALSE])
        IN  /\ \A rec \in Records(last_call.result) :
                  \E p \in BudgetCategoryPaths("expenses") :
                      LET c == NodeAt(budget, p)
                      IN  /\ rec.category = c.category
                          /\ rec.budgeted = c.amount[1] * PeriodCount
                          /\ rec.actual = -SumRowRange(RowsOf(c.category))
                          /\ rec.variance = rec.actual - rec.budgeted
                          /\ rec.budgeted # 0 =>
                               rec.variance_percent =
                                   Frac(100 * rec.variance, rec.budgeted)
                          /\ PeriodCount = 3 =>
                               \A rec1 \in Records(one_period) :
                                   rec1.category = rec.category =>
                                       rec.budgeted = 3 * rec1.budgeted
            /\ ~only_overspend =>
                  \A p \in BudgetCategoryPaths("expenses") :
                      \E rec \in Records(last_call.result) :
                          rec.category = NodeAt(budget, p).category

(***************************************************************************)
(* C2.  summarize_totals_by_budget_category() returns, for each budget     *)
(* category b that some row resolves to, the sum over the rows resolving   *)
(* to b of the row's values in all the columns start_index..end_index,     *)
(* the first column of the range included; rows that resolve to nothing    *)
(* belong to no group.                                                     *)
(***************************************************************************)
C2_TotalsOverWholeRange ==
    (CallReturned("summarize_totals_by_budget_category")
        /\ start_month[2] <= end_month[2]) =>
        /\ DOMAIN last_call.result =
              {NodeAt(budget, p).category :
                  p \in {q \in AllPaths(budget) :
                            RowsOf(NodeAt(budget, q).category) # {}}}
        /\ \A b \in DOMAIN last_call.result :
              last_call.result[b] = SumRowRange(RowsOf(b))

(***************************************************************************)
(* C3.  Worked examples over a 1-period range: Housing = 1500 with rows    *)
(* resolving to Housing that sum to -1600 gives budgeted 1500, actual      *)
(* 1600, variance -100, variance_percent -20/3 (about -6.667); Groceries   *)
(* = 400 with a Groceries total of -549.73 gives budgeted 400, actual      *)
(* 549.73, variance -149.73, variance_percent -14973/400 (about -37.43).   *)
(***************************************************************************)
C3_WorkedExamples ==
    (CallReturned("calculate_variances") /\ PeriodCount = 1 /\ ~only_overspend) =>
        /\ (/\ "Housing" \in DOMAIN budget._category_name_map
            /\ NodeAt(budget, budget._category_name_map["Housing"]).amount = <<150000>>
            /\ SumRowRange(RowsOf("Housing")) = -160000) =>
              \E rec \in Records(last_call.result) :
                  /\ rec.category = "Housing"
                  /\ rec.budgeted = 150000
                  /\ rec.actual = 160000
                  /\ rec.variance = -10000
                  /\ rec.variance_percent = Frac(-20, 3)
        /\ (/\ "Groceries" \in DOMAIN budget._category_name_map
            /\ NodeAt(budget, budget._category_name_map["Groceries"]).amount = <<40000>>
            /\ SumRowRange(RowsOf("Groceries")) = -54973) =>
              \E rec \in Records(last_call.result) :
                  /\ rec.category = "Groceries"
                  /\ rec.budgeted = 40000
                  /\ rec.actual = 54973
                  /\ rec.variance = -14973
                  /\ rec.variance_percent = Frac(-14973, 400)

(***************************************************************************)
(* C7.  calculate_variances() returns its records in the order of          *)
(* get_expense_categories(): without the overspend filter one record per   *)
(* expense budget category, those without a matching row with actual 0;    *)
(* with the filter, that same list without the records whose               *)
(* variance_percent <= overspend_threshold.                                *)
(***************************************************************************)
C7_RecordOrderAndFilter ==
    CallReturned("calculate_variances") =>
        LET cats == get_expense_categories(budget)
            res  == last_call.result
            full == calculate_variances([Self EXCEPT !.only_overspend = FALSE])
        IN  /\ ~only_overspend =>
                  /\ Len(res) = Len(cats)
                  /\ \A i \in 1..Len(cats) :
                        /\ res[i].category = NodeAt(budget, cats[i]).category
                        /\ RowsOf(res[i].category) = {} => res[i].actual = 0
            /\ only_overspend =>
                  res = SelectSeq(full,
                            LAMBDA r : ~FracLeq(r.variance_percent, overspend_threshold))

\* the filter removed the first record and kept a later one
C7_Witness ==
    /\ CallReturned("calculate_variances")
    /\ only_overspend
    /\ Len(last_call.result) >= 1
    /\ LET full == calculate_variances([Self EXCEPT !.only_overspend = FALSE])
       IN  /\ Len(full) >= 2
           /\ FracLeq(full[1].variance_percent, overspend_threshold)
           /\ last_call.result[1].category # full[1].category

(***************************************************************************)
(* C8.  With data and a range set calculate_variances() raises no error,   *)
(* and for every expense budget category whose budgeted amount is 0 the    *)
(* variance_percent is exactly 0, whatever was spent on it.                *)
(***************************************************************************)
C8_ZeroBudgetPercent ==
    (last_call.op = "calculate_variances" /\ RangeSet) =>
        /\ last_call.outcome = "ok"
        /\ \A rec \in Records(last_call.result) :
              rec.budgeted = 0 => rec.variance_percent = <<0, 1>>
        /\ ~only_overspend =>
              \A p \in BudgetCategoryPaths("expenses") :
                  NodeAt(budget, p).amount[1] * PeriodCount = 0 =>
                      \E rec \in Records(last_call.result) :
                          /\ rec.category = NodeAt(budget, p).category
                          /\ rec.variance_percent = <<0, 1>>

\* a category budgeted 0 per period that money was spent on
C8_Witness ==
    /\ CallReturned("calculate_variances")
    /\ PeriodCount >= 1
    /\ \E rec \in Records(last_call.result) :
          /\ rec.budgeted = 0
          /\ rec.actual > 0
          /\ rec.variance_percent = <<0, 1>>

(***************************************************************************)
(* C9.  With data and a range set generate_summary_stats() returns the     *)
(* budget totals times period_count, the sums of the reconciled totals     *)
(* (the sums of the matching rows over the selected range) over the        *)
(* income and over the expense budget categories (categories without a     *)
(* matching row counting 0, expenses kept negative) and their sum as       *)
(* actual_net.                                                             *)
(***************************************************************************)
C9_SummaryStats ==
    (CallReturned("generate_summary_stats") /\ RangeSet /\ PeriodCount >= 1) =>
        LET r == last_call.result
        IN  /\ r.total_budgeted_income = get_total_income(budget) * PeriodCount
            /\ r.total_budgeted_expenses = get_total_expenses(budget) * PeriodCount
            /\ r.budgeted_net = get_net_budget(budget) * PeriodCount
            /\ r.total_actual_income = SumOfRows(BudgetCategoryPaths("income"))
            /\ r.total_actual_expenses = SumOfRows(BudgetCategoryPaths("expenses"))
            /\ r.actual_net = r.total_actual_income + r.total_actual_expenses

(***************************************************************************)
(* C10.  Without actual data generate_summary_stats() does not fail and    *)
(* returns the budget totals scaled by exactly 1 period and zero actuals.  *)
(***************************************************************************)
C10_SummaryStatsWithoutData ==
    (last_call.op = "generate_summary_stats" /\ actual_data = None) =>
        /\ last_call.outcome = "ok"
        /\ last_call.result =
              [total_budgeted_income   |-> get_total_income(budget) * 1,
               total_budgeted_expenses |-> get_total_expenses(budget) * 1,
               budgeted_net            |-> get_net_budget(budget) * 1,
               total_actual_income     |-> 0,
               total_actual_expenses   |-> 0,
               actual_net              |-> 0]

\* the call on an analyzer that holds a budget with income and expenses
\* and no data
C10_Witness ==
    /\ last_call.op = "generate_summary_stats"
    /\ actual_data = None
    /\ start_month = None
    /\ last_call.result.total_budgeted_income > 0
    /\ last_call.result.total_budgeted_expenses > 0

(***************************************************************************)
(* C11.  A call of calculate_variances(), identify_overspending() or       *)
(* get_savings_opportunities() on an analyzer without actual data ends in  *)
(* an error, never in a result, and leaves the budget, the range, the      *)
(* threshold and the filter as they were.                                  *)
(***************************************************************************)
C11_NoDataAlwaysRaises ==
    [][(/\ actual_data = None
        /\ last_call'.op \in {"calculate_variances", "identify_overspending",
                              "get_savings_opportunities"})
          => /\ last_call'.outcome \notin {"ok", "none"}
             /\ last_call'.result = None
             /\ UNCHANGED <<budget, start_month, end_month,
                            overspend_threshold, only_overspend>>]_vars

\* the call failed on an analyzer whose threshold and filter had been set
C11_Witness ==
    /\ actual_data = None
    /\ last_call.op = "get_savings_opportunities"
    /\ last_call.outcome = "ValueError"
    /\ overspend_threshold # DefaultThreshold
    /\ only_overspend

(***************************************************************************)
(* C12.  identify_overspending(t) returns, in record order, the category   *)
(* names of exactly the records of calculate_variances() whose             *)
(* variance_percent > t; with the overspend filter set these are the       *)
(* unfiltered records with variance_percent > t and > overspend_threshold; *)
(* when calculate_variances() yields no record it returns the empty list   *)
(* and does not raise.                                                     *)
(***************************************************************************)
C12_IdentifyOverspending ==
    (last_call.op = "identify_overspending" /\ RangeSet) =>
        LET t    == last_call.arg[1]
            recs == calculate_variances(Self)
            full == calculate_variances([Self EXCEPT !.only_overspend = FALSE])
            over == SelectSeq(recs, LAMBDA r : ~FracLeq(r.variance_percent, t))
            both == SelectSeq(full, LAMBDA r :
                        /\ ~FracLeq(r.variance_percent, t)
                        /\ ~FracLeq(r.variance_percent, overspend_threshold))
        IN  /\ last_call.outcome = "ok"
            /\ last_call.result = [i \in 1..Len(over) |-> over[i].category]
            /\ only_overspend =>
                  last_call.result = [i \in 1..Len(both) |-> both[i].category]
            /\ recs = <<>> => last_call.result = <<>>

\* some records are named and an earlier one is not
C12_Witness ==
    /\ CallReturned("identify_overspending")
    /\ Len(last_call.result) >= 1
    /\ LET recs == calculate_variances(Self)
       IN  /\ Len(recs) > Len(last_call.result)
           /\ recs[1].category # last_call.result[1]

(***************************************************************************)
(* C13.  get_savings_opportunities() returns, in record order, one entry   *)
(* for exactly each record of calculate_variances() whose variance < 0,    *)
(* with potential_savings = |variance| and current_spending = the          *)
(* record's actual; records with variance >= 0 give no entry.              *)
(***************************************************************************)
C13_SavingsOpportunities ==
    (last_call.op = "get_savings_opportunities" /\ RangeSet) =>
        LET recs  == calculate_variances(Self)
            under == SelectSeq(recs, LAMBDA r : r.variance < 0)
        IN  /\ last_call.outcome = "ok"
            /\ Len(last_call.result) = Len(under)
            /\ \A i \in 1..Len(under) :
                  /\ last_call.result[i].category = under[i].category
                  /\ last_call.result[i].potential_savings =
                        (IF under[i].variance < 0 THEN -under[i].variance
                                                  ELSE under[i].variance)
                  /\ last_call.result[i].current_spending = under[i].actual

\* the analyzer with every row that resolves to no budget category removed
\* from its table
WithoutUnmatchedRows(self) ==
    [self EXCEPT !.actual_data =
        <<[columns |-> self.actual_data[1].columns,
           rows    |-> SelectSeq(self.actual_data[1].rows,
                           LAMBDA row : row.name \in DOMAIN self.budget._budget_category_map)]>>]

(***************************************************************************)
(* C14.  A row whose name resolves to no budget category is no error and   *)
(* has no effect on an aggregate: summarize_totals_by_budget_category(),   *)
(* calculate_variances() and generate_summary_stats() return what they     *)
(* return on the table without such rows, so adding or removing them,      *)
(* whatever their values, changes no result.                               *)
(***************************************************************************)
C14_UnmatchedRowsIgnored ==
    (/\ last_call.op \in {"summarize_totals_by_budget_category",
                          "calculate_variances", "generate_summary_stats"}
     /\ RangeSet) =>
        /\ last_call.outcome = "ok"
        /\ last_call.result =
              CASE last_call.op = "summarize_totals_by_budget_category" ->
                       summarize_totals_by_budget_category(WithoutUnmatchedRows(Self))
                [] last_call.op = "calculate_variances" ->
                       calculate_variances(WithoutUnmatchedRows(Self))
                [] last_call.op = "generate_summary_stats" ->
                       generate_summary_stats(WithoutUnmatchedRows(Self))

\* the totals were computed over a table that holds a matched row and an
\* unmatched row with spending in the summed columns
C14_Witness ==
    /\ CallReturned("summarize_totals_by_budget_category")
    /\ PeriodCount >= 2
    /\ DOMAIN last_call.result # {}
    /\ \E r \in 1..Len(actual_data[1].rows) :
          /\ actual_data[1].rows[r].name \notin DOMAIN budget._budget_category_map
          /\ RowRangeSum(actual_data[1].rows[r]) # 0

(***************************************************************************)
(* Vocabulary of the loader's properties.                                  *)
(***************************************************************************)
\* the position of a step in steps, 0 when it was not taken
StepAt(step) ==
    IF \E i \in 1..Len(steps) : steps[i] = step
    THEN CHOOSE i \in 1..Len(steps) : steps[i] = step
    ELSE 0

Taken(step) ==
    StepAt(step) > 0

TakenBefore(first, second) ==
    Taken(first) /\ StepAt(first) < StepAt(second)

\* the run is a run of load_budget, not of the constructor alone
ThroughLoadBudget ==
    pc = "load_budget" \/ Taken("yaml.safe_load")

DocumentPaths ==
    ForestPaths(document.income, <<"income">>)
        \cup ForestPaths(document.expenses, <<"expenses">>)

InheritedLiterals ==
    {AmountStr(INHERITED), AmountStr(Inherited_mixed_case)}

\* the document is what the schema takes as well-formed: every amount a
\* number or the INHERITED literal
WellFormed ==
    \A p \in DocumentPaths :
        \/ NodeAt(document, p).amount.type = "number"
        \/ NodeAt(document, p).amount \in InheritedLiterals

C16_InheritedNormalized ==
    /\ [](Taken("preprocess_inherited") =>
            \A p \in DocumentPaths :
                LET declared == NodeAt(document, p).amount
                IN  /\ declared \in InheritedLiterals =>
                          /\ NodeAt(load_data, p).amount = AmountNone
                          /\ budget # None => NodeAt(budget, p).amount = None
                    /\ declared.type = "number" =>
                          /\ NodeAt(load_data, p).amount = declared
                          /\ budget # None =>
                                NodeAt(budget, p).amount = <<declared.number>>)
    /\ [][document' = document]_vars

\* a budget built from a document with a mixed-case literal three levels
\* down, an upper-case literal on a root and a numeric amount
C16_Witness ==
    /\ budget # None
    /\ \E p \in DocumentPaths :
          Len(p) = 4 /\ NodeAt(document, p).amount = AmountStr(Inherited_mixed_case)
    /\ \E p \in DocumentPaths :
          Len(p) = 2 /\ NodeAt(document, p).amount = AmountStr(INHERITED)
    /\ \E p \in DocumentPaths : NodeAt(document, p).amount.type = "number"

(***************************************************************************)
(* C17.  After a load of a document with unique names,                     *)
(* get_expense_category(name).amount is the declared amount for every      *)
(* top-level expense whose declared amount is not INHERITED, and           *)
(* get_expense_category returns None for a name no node bears and for the  *)
(* name of a node whose amount is inherited.                               *)
(***************************************************************************)
C17_DeclaredAmountRoundTrip ==
    (last_call.op = "get_expense_category" /\ ThroughLoadBudget) =>
        LET cat_name == last_call.arg
            named    == {p \in DocumentPaths : NodeAt(document, p).category = cat_name}
        IN  /\ \A i \in 1..Len(document.expenses) :
                  (/\ document.expenses[i].category = cat_name
                   /\ document.expenses[i].amount.type = "number") =>
                      /\ last_call.result # None
                      /\ NodeAt(budget, last_call.result[1]).category = cat_name
                      /\ NodeAt(budget, last_call.result[1]).amount =
                            <<document.expenses[i].amount.number>>
            /\ named = {} => last_call.result = None
            /\ (\E p \in named : NodeAt(document, p).amount \in InheritedLiterals) =>
                  last_call.result = None

\* the lookup found a top-level expense next to an inherited one
C17_Witness ==
    /\ last_call.op = "get_expense_category"
    /\ ThroughLoadBudget
    /\ last_call.result # None
    /\ Len(last_call.result[1]) = 2
    /\ \E i \in 1..Len(document.expenses) :
          document.expenses[i].amount \in InheritedLiterals

(***************************************************************************)
(* Vocabulary of the editor's properties.                                  *)
(***************************************************************************)
\* the two forests of a Budget object of the session
Forests(b) ==
    <<b.model.income, b.model.expenses>>

\* the editor page is shown with its tables
EditorShown ==
    /\ session # None
    /\ session.page = "editor"
    /\ session.budget # None
    /\ session.working_budget # None

\* the last interaction was with `widget`
Interacted(widget) ==
    session # None /\ last_call.op = widget

\* the step is an interaction with `widget`
Interacts(widget) ==
    last_call'.op = widget

\* the step is an interaction with `widget` whose run ended as `ended`
InteractsEnding(widget, ended) ==
    last_call'.op = widget /\ last_call'.outcome = ended

(***************************************************************************)
(* C18  Clean state of the editor: whenever the editor page is shown and   *)
(* unsaved_changes is False, the forests of the working copy (every        *)
(* node's amount) equal the forests of the live budget, also after "Leave  *)
(* without saving" and a return to the editor page.                        *)
(***************************************************************************)
C18_CleanState ==
    (EditorShown /\ ~session.unsaved_changes)
        => Forests(session.working_budget) = Forests(session.budget)

(***************************************************************************)
(* C19  Save, from any state of the editor: afterwards the forests of the  *)
(* live budget are the forests the working copy had when Save was          *)
(* pressed, the two indexes of the live budget are those a fresh           *)
(* model_post_init builds from these forests, the working copy equals the  *)
(* new live budget, unsaved_changes is False and working_budget_version    *)
(* equals budget_version.                                                  *)
(***************************************************************************)
C19_Save ==
    [][Interacts("Save Changes") =>
         /\ Forests(session'.budget) = Forests(session.working_budget)
         /\ session'.budget.model =
                model_post_init(session'.budget.model.income,
                                session'.budget.model.expenses)
         /\ session'.working_budget.model = session'.budget.model
         /\ ~session'.unsaved_changes
         /\ session'.working_budget_version = session'.budget_version]_vars

\* Save has stored edited amounts: the live budget is the budget of no file
C19_Witness ==
    /\ Interacted("Save Changes")
    /\ \A f \in DOMAIN BudgetFiles : session.budget # _load_budget_file(f)
    /\ Forests(session.working_budget) = Forests(session.budget)
    /\ ~session.unsaved_changes
    /\ session.working_budget_version = session.budget_version

(***************************************************************************)
(* C20  Discard: after Cancel Changes with no unsaved changes, and after   *)
(* "Discard changes" in the dialog Cancel Changes opens when there are     *)
(* unsaved changes, the working copy equals the live budget and            *)
(* unsaved_changes is False; editing a table, Cancel Changes and the       *)
(* buttons of its dialog leave the live budget and budget_version as they  *)
(* were.                                                                   *)
(***************************************************************************)
C20_Discard ==
    [][/\ (\/ Interacts("Discard changes")
           \/ InteractsEnding("Cancel Changes", "end")) =>
             /\ session'.working_budget.model = session'.budget.model
             /\ ~session'.unsaved_changes
             /\ ~session'.show_discard_modal
       /\ (\/ Interacts("income_categories_edit_table")
           \/ Interacts("expense_categories_edit_table")
           \/ Interacts("Cancel Changes")
           \/ Interacts("Discard changes")
           \/ Interacts("Keep editing")) =>
             /\ session'.budget = session.budget
             /\ session'.budget_version = session.budget_version]_vars

\* the dialog has discarded edits of the budget of file a
C20_Witness ==
    /\ Interacted("Discard changes")
    /\ session.budget = _load_budget_file("a")
    /\ session.budget_version = 1
    /\ Forests(session.working_budget) = Forests(session.budget)
    /\ ~session.unsaved_changes

(***************************************************************************)
(* Vocabulary of the index properties: the order of the walk of            *)
(* model_post_init, income forest first, each forest depth-first.          *)
(***************************************************************************)
WalkBefore(p, q) ==
    IF p[1] # q[1] THEN p[1] = "income"
    ELSE PreOrderBefore(Tail(p), Tail(q))

\* the nodes of b that bear the name
Named(b, name) ==
    {p \in AllPaths(b) : NodeAt(b, p).category = name}

\* the node bearing the name that the walk visits last
LastNamed(b, name) ==
    CHOOSE p \in Named(b, name) :
        \A q \in Named(b, name) : q = p \/ WalkBefore(q, p)

\* the nearest amount-bearing node on the way from the root to p, p
\* included, as a set of at most one path
NearestAmountBearing(b, p) ==
    {q \in AmountBearingOnPath(b, p) :
        \A r \in AmountBearingOnPath(b, p) : Len(r) <= Len(q)}

(***************************************************************************)
(* C22  When a name is borne by more than one node, both indexes hold for  *)
(* that name the entry of the node the walk visits last: name_to_node      *)
(* holds that node, name_to_budget_category holds that node's budget       *)
(* category (and no entry when that node has none).                        *)
(***************************************************************************)
C22_LastOccurrenceWins ==
    budget # None =>
        \A name \in {NodeAt(budget, p).category : p \in AllPaths(budget)} :
            LET last == LastNamed(budget, name)
                near == NearestAmountBearing(budget, last)
            IN  /\ name \in DOMAIN budget._category_name_map
                /\ budget._category_name_map[name] = last
                /\ IF near = {}
                   THEN name \notin DOMAIN budget._budget_category_map
                   ELSE /\ name \in DOMAIN budget._budget_category_map
                        /\ budget._budget_category_map[name] \in near

(***************************************************************************)
(* C27  No budgeted amount is counted twice: get_total_expenses() is the   *)
(* sum of get_total_amount() over the root expense categories, and         *)
(* get_total_income() the same sum over the income roots.                  *)
(***************************************************************************)
C27_TotalsAreSumsOverRoots ==
    /\ last_call.op = "get_total_expenses" =>
          last_call.result =
              SumSeq([i \in 1..Len(budget.expenses) |->
                          get_total_amount(budget.expenses[i])])
    /\ last_call.op = "get_total_income" =>
          last_call.result =
              SumSeq([i \in 1..Len(budget.income) |->
                          get_total_amount(budget.income[i])])

(***************************************************************************)
(* Vocabulary of the analyzer's frame properties.                          *)
(***************************************************************************)
AggregateOperations ==
    {"summarize_totals_by_budget_category", "calculate_variances",
     "identify_overspending", "get_savings_opportunities",
     "generate_summary_stats"}

(***************************************************************************)
(* C23  The aggregate operations of the analyzer are pure: a call of       *)
(* summarize_totals_by_budget_category(), calculate_variances(),           *)
(* identify_overspending(), get_savings_opportunities() or                 *)
(* generate_summary_stats() leaves the budget, the table, the range, the   *)
(* threshold and the filter as they were, and a call that repeats the      *)
(* call before it ends as that call ended, with the same result.           *)
(***************************************************************************)
C23_AggregatesArePure ==
    [][last_call'.op \in AggregateOperations =>
         /\ UNCHANGED <<budget, actual_data, start_month, end_month,
                        overspend_threshold, only_overspend>>
         /\ (last_call.op = last_call'.op /\ last_call.arg = last_call'.arg)
               => last_call' = last_call]_vars

\* records were computed under the filter, and table, range, threshold and
\* filter are all still set
C23_Witness ==
    /\ CallReturned("calculate_variances")
    /\ last_call.result # <<>>
    /\ RangeSet
    /\ only_overspend
    /\ overspend_threshold # DefaultThreshold

(***************************************************************************)
(* C28  With actual data and a range set, get_savings_opportunities()      *)
(* never fails; when calculate_variances() yields no record it returns     *)
(* the empty list.                                                         *)
(***************************************************************************)
C28_SavingsOpportunitiesNeverFails ==
    (last_call.op = "get_savings_opportunities" /\ RangeSet) =>
        /\ last_call.outcome = "ok"
        /\ calculate_variances(Self) = <<>> => last_call.result = <<>>

(***************************************************************************)
(* C21  Index consistency: after every run of the editor page (every       *)
(* completed apply_changes_to_working_copy, save, discard and working-copy *)
(* setup) the two indexes of the live budget and of the working copy are   *)
(* those a fresh walk of the budget's forests builds, and the nodes they   *)
(* hold are nodes of that budget's own forests.                            *)
(***************************************************************************)
C21_IndexConsistency ==
    session # None =>
        \A b \in {session.budget, session.working_budget} \ {None} :
            /\ b.model = model_post_init(b.model.income, b.model.expenses)
            /\ b.own_indexes

(***************************************************************************)
(* C26  A budget upload that fails (unreadable file, or a file the schema  *)
(* or the model rejects) leaves the live budget, budget_version,           *)
(* budget_file_digest and the analyzer as they were before the upload.     *)
(***************************************************************************)
C26_FailedUploadKeepsSession ==
    [][InteractsEnding("Upload Budget YAML", "error") =>
            /\ session'.budget = session.budget
            /\ session'.budget_version = session.budget_version
            /\ session'.budget_file_digest = session.budget_file_digest
            /\ session'.analyzer = session.analyzer]_vars

(***************************************************************************)
(* C29  Versioning: budget_version grows by exactly 1 on every successful  *)
(* budget load and on every Save, changes on no other step and never       *)
(* decreases; working_budget_version never exceeds budget_version; and a   *)
(* run that opens the editor page while the working copy's version differs *)
(* from budget_version leaves a working copy that is a copy of the live    *)
(* budget, at the live version, with unsaved_changes False and no pending  *)
(* table, so that a Save stores nothing edited against an older budget.    *)
(***************************************************************************)
C29_Versioning ==
    [][/\ session'.budget_version >= session.budget_version
       /\ session'.working_budget_version <= session'.budget_version
       /\ (InteractsEnding("Upload Budget YAML", "loaded")
             \/ Interacts("Save Changes"))
            <=> session'.budget_version = session.budget_version + 1
       /\ session'.budget_version # session.budget_version
            => session'.budget_version = session.budget_version + 1
       /\ ( /\ Interacts("Edit Budget")
            /\ session.budget # None
            /\ session.working_budget_version # session.budget_version )
            => /\ Forests(session'.working_budget) = Forests(session.budget)
               /\ session'.working_budget.model = session.budget.model
               /\ session'.working_budget_version = session.budget_version
               /\ ~session'.unsaved_changes
               /\ session'.income_categories_edit_table
                    = flatten_categories(session.budget.model.income)
               /\ session'.expense_categories_edit_table
                    = flatten_categories(session.budget.model.expenses)]_vars

\* the editor was opened on a working copy of version 1 holding unsaved edits
\* of the first budget after a second budget had been loaded: the working
\* copy is the second budget
C29_Witness ==
    /\ Interacted("Edit Budget")
    /\ last_call.result = <<1>>
    /\ session.budget_version = 2
    /\ session.working_budget_version = 2
    /\ session.budget_file_digest = <<"b">>
    /\ Forests(session.working_budget) = Forests(_load_budget_file("b"))
    /\ ~session.unsaved_changes

(***************************************************************************)
(* C24  Working-copy isolation: a step that edits a table of the editor,   *)
(* hence any sequence of such steps, leaves the live budget (amounts,      *)
(* shape and indexes) as it was, before a Save and after one; the live     *)
(* budget changes on no step of the session other than an upload on the    *)
(* main page and Save Changes.                                             *)
(***************************************************************************)
C24_WorkingCopyIsolation ==
    [][/\ ( Interacts("income_categories_edit_table")
              \/ Interacts("expense_categories_edit_table") )
            => session'.budget = session.budget
       /\ session'.budget # session.budget
            => Interacts("Upload Budget YAML") \/ Interacts("Save Changes")]_vars

\* a table was edited after a Save that stored edits: the working copy
\* differs from the live budget, which is the saved one
C24_Witness ==
    /\ EditorShown
    /\ ( Interacted("income_categories_edit_table")
           \/ Interacted("expense_categories_edit_table") )
    /\ session.budget_version = 2
    /\ \A f \in DOMAIN BudgetFiles :
           Forests(session.budget) # Forests(_load_budget_file(f))
    /\ session.unsaved_changes
    /\ Forests(session.working_budget) # Forests(session.budget)

\* the session at the apply-pending-edits step of the run that a table edit
\* triggers: the widget keys hold the edited tables, nothing is applied yet
PendingEdits ==
    [session EXCEPT
        !.income_categories_edit_table = session'.income_categories_edit_table,
        !.expense_categories_edit_table = session'.expense_categories_edit_table]

\* every row of the table is what the budget's node of that name holds
TableApplied(table, b) ==
    \A i \in 1..Len(table) :
        NodeAt(b.model, b.model._category_name_map[table[i].category]).amount
            = IF table[i].inherited THEN None ELSE table[i].amount

(***************************************************************************)
(* C25  The apply-pending-edits step applies the pending edits of both     *)
(* tables to the working copy, whatever unsaved_changes was before and     *)
(* whether or not the income table produced a change; afterwards           *)
(* unsaved_changes is (its previous value OR some amount was changed); and *)
(* the helper-module version and the version inline in the page produce    *)
(* the same working copy and the same flag.                                *)
(***************************************************************************)
C25_ApplyPendingEdits ==
    [][( Interacts("income_categories_edit_table")
           \/ Interacts("expense_categories_edit_table") )
        => LET inline == _apply_edit_changes_update_flag(PendingEdits)
               helper == apply_edit_changes_update_flag(PendingEdits)
           IN  /\ TableApplied(PendingEdits.income_categories_edit_table,
                               inline.working_budget)
               /\ TableApplied(PendingEdits.expense_categories_edit_table,
                               inline.working_budget)
               /\ inline.unsaved_changes
                    = ( session.unsaved_changes
                          \/ Forests(inline.working_budget)
                               # Forests(session.working_budget) )
               /\ helper.working_budget = inline.working_budget
               /\ helper.unsaved_changes = inline.unsaved_changes]_vars

\* apply_changes_to_working_copy on the unedited table of each forest of b
\* returns False and b as it was
UneditedIsNoOp(b) ==
    \A forest \in {b.model.income, b.model.expenses} :
        apply_changes_to_working_copy(flatten_categories(forest), b)
            = [working_budget |-> b, changes_made |-> FALSE]

====
